---- MODULE Spec2Model ----
(***************************************************************************)
(* Lead registration pipeline of backend-brighte-eats:                     *)
(*   LeadsResolver.register -> ValidationPipe(RegisterInput)               *)
(*     -> LeadsService.registerLead -> LeadsRepository.create              *)
(*     -> prismaService.lead.create (one transaction on Lead and           *)
(*        ServiceInterest) -> UtilityService.handleSuccess / handleError   *)
(*     -> GraphQLErrorFilter -> formatGraphQLError.                        *)
(* Texts are sequences of string tokens; a field name of a storage error   *)
(* is a sequence of one-character tokens, so that capitalisation and       *)
(* joining are computed and not assumed.                                   *)
(***************************************************************************)
EXTENDS Integers, Sequences, FiniteSets, TLC

----------------------------------------------------------------------------
(* Bounds of the model *)

\* longest serviceType list a payload carries
MaxTypes == 3
\* longest meta.target array of a storage error
MaxTarget == 2

----------------------------------------------------------------------------
(* State *)

VARIABLES
  leads,        \* committed rows of table Lead
  interests,    \* committed rows of table ServiceInterest
  leadSeq,      \* next value of Lead.id's sequence
  interestSeq,  \* next value of ServiceInterest.id's sequence
  pc,           \* where each register call stands
  input,        \* the payload of each call
  tx,           \* rows written by each call's open transaction
  thrown,       \* what was thrown to each call (storage error or pipe exception)
  result,       \* what prismaService.lead.create resolved to
  calls,        \* number of prismaService.lead.create calls of each call
  probe,        \* a throwable on its way through the error path (MapSpec)
  embedsOriginal,
                \* whether the text ERROR_MESSAGES.DATABASE_ERROR builds holds
                \* the message of the error it is given
  http          \* the HTTP requests on their way through the middleware and
                \* the logging plugin (IdSpec)

----------------------------------------------------------------------------
(* Program constants *)

OK == 200
CREATED == 201
BAD_REQUEST == 400
NOT_FOUND == 404
CONFLICT == 409
INTERNAL_SERVER_ERROR == 500

ServiceType == {"DELIVERY", "PICKUP", "PAYMENT"}

PRISMA_ERROR_CODES ==
  [PRISMA_UNIQUE_CONSTRAINT |-> "P2002", RECORD_NOT_FOUND |-> "P2025"]

ERROR_CODES ==
  [INTERNAL_SERVER_ERROR |-> "INTERNAL_SERVER_ERROR",
   BAD_REQUEST |-> "BAD_REQUEST",
   NOT_FOUND |-> "NOT_FOUND",
   CONFLICT |-> "CONFLICT",
   GRAPHQL_VALIDATION_FAILED |-> "GRAPHQL_VALIDATION_FAILED",
   HTTP_EXCEPTION |-> "HTTP_EXCEPTION"]

ERROR_MESSAGES ==
  [INTERNAL_SERVER_ERROR |-> <<"Internal Server Error">>,
   BAD_REQUEST |-> <<"Bad Request">>,
   NOT_FOUND |-> <<"Resource Not Found">>,
   INVALID_PHONE_NUMBER |-> <<"Please enter a valid Philippines phone number">>,
   MINIMUM_SERVICE_TYPE |-> <<"At least one service type must be selected">>]

SUCCESS_MESSAGES ==
  [DEFAULT |-> <<"Success">>, REGISTERED |-> <<"Lead registered successfully">>]

\* ERROR_MESSAGES.FIELD_NAMES_EXIST(fieldNames): "<fieldNames> already exists"
FIELD_NAMES_EXIST(fieldNames) == fieldNames \o <<" already exists">>

\* ERROR_MESSAGES.DATABASE_ERROR(error): a text built from error; the
\* builder is called with the error and may embed its message or not
DATABASE_ERROR(error) ==
  IF embedsOriginal THEN <<"Database error: ">> \o error.message
  ELSE <<"Database error">>

----------------------------------------------------------------------------
(* Text helpers: JavaScript string operations on token sequences *)

Lower == <<"a","b","c","d","e","f","g","h","i","j","k","l","m",
           "n","o","p","q","r","s","t","u","v","w","x","y","z">>
Upper == <<"A","B","C","D","E","F","G","H","I","J","K","L","M",
           "N","O","P","Q","R","S","T","U","V","W","X","Y","Z">>

\* String.prototype.toUpperCase on one character
ToUpperCase(c) ==
  IF \E i \in 1..26 : Lower[i] = c
    THEN Upper[CHOOSE i \in 1..26 : Lower[i] = c]
    ELSE c

\* Array.prototype.join
RECURSIVE Join(_, _)
Join(parts, sep) ==
  IF parts = <<>> THEN <<>>
  ELSE IF Len(parts) = 1 THEN Head(parts)
  ELSE Head(parts) \o sep \o Join(Tail(parts), sep)

\* Array.prototype.map
MapSeq(s, F(_)) == [i \in 1..Len(s) |-> F(s[i])]

\* all sequences over S of length lo..hi
SeqsUpTo(S, lo, hi) == UNION {[1..n -> S] : n \in lo..hi}

\* a ?? b on an optional property
Coalesce(obj, key, dflt) == IF key \in DOMAIN obj THEN obj[key] ELSE dflt

\* object spread { ...base, ...over }
Spread(base, over) ==
  [k \in DOMAIN base \cup DOMAIN over |->
     IF k \in DOMAIN over THEN over[k] ELSE base[k]]

----------------------------------------------------------------------------
(* Throwables *)

\* new HttpException subclass(response): getStatus(), getResponse() and the
\* message Nest derives (the response's message when it is a string, else
\* the class name in words)
HttpException(name, status, response, words) ==
  [class |-> "HttpException", name |-> name, status |-> status,
   response |-> response,
   message |-> IF response.kind = "string" THEN response.text
               ELSE IF "message" \in DOMAIN response THEN response.message
               ELSE words]

ConflictException(body) ==
  HttpException("ConflictException", CONFLICT,
                Spread([kind |-> "object"], body), <<"Conflict Exception">>)
NotFoundException(body) ==
  HttpException("NotFoundException", NOT_FOUND,
                Spread([kind |-> "object"], body), <<"Not Found Exception">>)
InternalServerErrorException(body) ==
  HttpException("InternalServerErrorException", INTERNAL_SERVER_ERROR,
                Spread([kind |-> "object"], body),
                <<"Internal Server Error Exception">>)
BadRequestException(body) ==
  HttpException("BadRequestException", BAD_REQUEST,
                Spread([kind |-> "object"], body), <<"Bad Request Exception">>)

IsHttpException(e) == e.class = "HttpException"
IsKnownRequestError(e) == e.class = "PrismaClientKnownRequestError"
IsGraphQLError(e) == e.class = "GraphQLError"
\* instanceof Error: every throwable of the model but a thrown non-Error value
IsError(e) == e.class # "NonError"

----------------------------------------------------------------------------
(* BaseRepository: translation of storage errors *)

\* a variant that leaves the first letter as it is
Capitalise_AsIs(field) == field

\* field.charAt(0).toUpperCase() + field.slice(1)
Capitalise(field) ==
  IF field = <<>> THEN <<>>
  ELSE <<ToUpperCase(Head(field))>> \o Tail(field)

\* const { target = [] } = error.meta ?? {}; Array.isArray / typeof ladder
TargetFields(error) ==
  LET meta == error.meta IN
  IF meta.kind = "array"
    THEN MapSeq(SelectSeq(meta.items, LAMBDA item : item.t = "string"),
                LAMBDA item : item.v)
  ELSE IF meta.kind = "string" THEN <<meta.value>>
  ELSE <<>>

\* the earlier revision: (error.meta.target as string[]) ?? [], which throws
\* a TypeError when meta is absent, when target has no map method and when
\* an element has no charAt method
throwPrismaUniqueConstraint_EarlierRevision(error) ==
  LET meta == error.meta IN
  IF meta.kind = "noTarget"
    THEN ConflictException([status |-> CONFLICT,
                            message |-> FIELD_NAMES_EXIST(<<>>),
                            code |-> ERROR_CODES.CONFLICT])
  ELSE IF /\ meta.kind = "array"
          /\ \A i \in 1..Len(meta.items) : meta.items[i].t = "string"
    THEN ConflictException(
           [status |-> CONFLICT,
            message |-> FIELD_NAMES_EXIST(
              Join(MapSeq(MapSeq(meta.items, LAMBDA item : item.v),
                          Capitalise), <<" and ">>)),
            code |-> ERROR_CODES.CONFLICT])
  ELSE [class |-> "Error", message |-> <<"TypeError">>]

throwPrismaUniqueConstraint(error) ==
  LET fields == TargetFields(error)
      fieldNames == Join(MapSeq(fields, Capitalise), <<" and ">>)
  IN ConflictException([status |-> CONFLICT,
                        message |-> FIELD_NAMES_EXIST(fieldNames),
                        code |-> ERROR_CODES.CONFLICT])

handleUnknownError ==
  InternalServerErrorException(
    [status |-> INTERNAL_SERVER_ERROR,
     message |-> ERROR_MESSAGES.INTERNAL_SERVER_ERROR,
     code |-> ERROR_CODES.INTERNAL_SERVER_ERROR])

\* a variant in which the unique-constraint case falls through to the next
\* case of the switch
handleKnownRequestError_FallThrough(error) ==
  CASE error.code \in {PRISMA_ERROR_CODES.PRISMA_UNIQUE_CONSTRAINT,
                       PRISMA_ERROR_CODES.RECORD_NOT_FOUND} ->
         NotFoundException([status |-> NOT_FOUND,
                            message |-> ERROR_MESSAGES.NOT_FOUND,
                            code |-> ERROR_CODES.NOT_FOUND])
    [] OTHER ->
         InternalServerErrorException(
           [status |-> INTERNAL_SERVER_ERROR,
            message |-> DATABASE_ERROR(error),
            code |-> ERROR_CODES.INTERNAL_SERVER_ERROR])

\* a variant without the case for the unique-constraint code
handleKnownRequestError_NoUniqueCase(error) ==
  CASE error.code = PRISMA_ERROR_CODES.RECORD_NOT_FOUND ->
         NotFoundException([status |-> NOT_FOUND,
                            message |-> ERROR_MESSAGES.NOT_FOUND,
                            code |-> ERROR_CODES.NOT_FOUND])
    [] OTHER ->
         InternalServerErrorException(
           [status |-> INTERNAL_SERVER_ERROR,
            message |-> DATABASE_ERROR(error),
            code |-> ERROR_CODES.INTERNAL_SERVER_ERROR])

handleKnownRequestError(error) ==
  CASE error.code = PRISMA_ERROR_CODES.PRISMA_UNIQUE_CONSTRAINT ->
         throwPrismaUniqueConstraint(error)
    [] error.code = PRISMA_ERROR_CODES.RECORD_NOT_FOUND ->
         NotFoundException([status |-> NOT_FOUND,
                            message |-> ERROR_MESSAGES.NOT_FOUND,
                            code |-> ERROR_CODES.NOT_FOUND])
    [] OTHER ->
         InternalServerErrorException(
           [status |-> INTERNAL_SERVER_ERROR,
            message |-> DATABASE_ERROR(error),
            code |-> ERROR_CODES.INTERNAL_SERVER_ERROR])

\* a variant that rethrows what is no known request error
handlePrismaError_Rethrow(error) ==
  IF IsKnownRequestError(error)
    THEN handleKnownRequestError(error)
    ELSE error

\* the exception handlePrismaError throws (it never returns)
handlePrismaError(error) ==
  IF IsKnownRequestError(error)
    THEN handleKnownRequestError(error)
    ELSE handleUnknownError

----------------------------------------------------------------------------
(* UtilityService *)

handleSuccess(data, message, statusCode) ==
  [success |-> TRUE, statusCode |-> statusCode, message |-> message,
   data |-> data]

\* a variant that throws on whatever it was given
handleError_Rethrows(error) == error

\* a variant without the branch for HttpException
handleError_NoHttpBranch(error) ==
  IF IsError(error)
    THEN BadRequestException([message |-> error.message,
                              code |-> ERROR_CODES.BAD_REQUEST])
  ELSE InternalServerErrorException(
         [message |-> ERROR_MESSAGES.INTERNAL_SERVER_ERROR,
          code |-> ERROR_CODES.INTERNAL_SERVER_ERROR])

\* the exception handleError throws (it never returns)
handleError(error) ==
  IF IsHttpException(error) THEN error
  ELSE IF IsError(error)
    THEN BadRequestException([message |-> error.message,
                              code |-> ERROR_CODES.BAD_REQUEST])
  ELSE InternalServerErrorException(
         [message |-> ERROR_MESSAGES.INTERNAL_SERVER_ERROR,
          code |-> ERROR_CODES.INTERNAL_SERVER_ERROR])

----------------------------------------------------------------------------
(* GraphQLErrorFilter and formatGraphQLError *)

\* the instant of new Date().toISOString(), not distinguished further
Now == "now"

handleHttpException(exception) ==
  LET response == exception.response IN
  IF response.kind = "object"
    THEN [status |-> exception.status,
          message |-> IF "message" \in DOMAIN response THEN response.message
                      ELSE IF "messages" \in DOMAIN response
                        \* an array message becomes the GraphQLError's text
                        \* by String(array)
                        THEN Join(response.messages, <<",">>)
                      ELSE exception.message,
          code |-> Coalesce(response, "code", ERROR_CODES.HTTP_EXCEPTION)]
    ELSE [status |-> exception.status,
          message |-> response.text,
          code |-> ERROR_CODES.HTTP_EXCEPTION]

handleGraphQLError(exception) ==
  [status |-> BAD_REQUEST,
   message |-> exception.message,
   code |-> Coalesce(exception.extensions, "code",
                     ERROR_CODES.GRAPHQL_VALIDATION_FAILED),
   extensions |-> exception.extensions]

handleGenericError(exception) ==
  [status |-> INTERNAL_SERVER_ERROR,
   message |-> exception.message,
   code |-> ERROR_CODES.INTERNAL_SERVER_ERROR]

handleUnknownErrorInfo ==
  [status |-> INTERNAL_SERVER_ERROR,
   message |-> ERROR_MESSAGES.INTERNAL_SERVER_ERROR,
   code |-> ERROR_CODES.INTERNAL_SERVER_ERROR]

createGraphQLError(errorInfo) ==
  [class |-> "GraphQLError",
   message |-> errorInfo.message,
   extensions |->
     Spread([code |-> errorInfo.code, status |-> errorInfo.status,
             timestamp |-> Now],
            Coalesce(errorInfo, "extensions", <<>>))]

\* GraphQLErrorFilter.catch
FilterCatch(exception) ==
  createGraphQLError(
    IF IsHttpException(exception) THEN handleHttpException(exception)
    ELSE IF IsGraphQLError(exception) THEN handleGraphQLError(exception)
    ELSE IF IsError(exception) THEN handleGenericError(exception)
    ELSE handleUnknownErrorInfo)

\* the GraphQLFormattedError the server derives from a GraphQLError raised
\* while resolving the field at path
Formatted(gqlError, path) ==
  [message |-> gqlError.message, extensions |-> gqlError.extensions,
   path |-> path]

\* a variant that answers with its defaults whatever the extensions hold
formatGraphQLError_DefaultsOnly(formattedError) ==
  [status |-> BAD_REQUEST,
   message |-> formattedError.message,
   code |-> ERROR_CODES.INTERNAL_SERVER_ERROR,
   path |-> formattedError.path,
   timestamp |-> Now]

\* a variant that hands the error on as GraphQL produced it
formatGraphQLError_Unformatted(formattedError) == formattedError

formatGraphQLError(formattedError) ==
  IF "extensions" \notin DOMAIN formattedError
    THEN [status |-> BAD_REQUEST,
          message |-> formattedError.message,
          code |-> ERROR_CODES.INTERNAL_SERVER_ERROR,
          path |-> formattedError.path,
          timestamp |-> Now]
    ELSE LET originalError == formattedError.extensions IN
         [status |-> Coalesce(originalError, "status", BAD_REQUEST),
          message |-> Coalesce(originalError, "message",
                               formattedError.message),
          code |-> Coalesce(originalError, "code",
                            ERROR_CODES.INTERNAL_SERVER_ERROR),
          path |-> formattedError.path,
          timestamp |-> Coalesce(originalError, "timestamp", Now)]

\* what the client receives for an exception thrown out of the resolver
ErrorResponse(exception) ==
  [kind |-> "errors",
   error |-> formatGraphQLError(Formatted(FilterCatch(exception),
                                          <<"register">>))]

\* what the client receives for a value returned by the resolver
DataResponse(envelope) == [kind |-> "data", register |-> envelope]

----------------------------------------------------------------------------
(* RegisterInput: payloads and their validation *)

\* a property the caller did not send
Undefined == "\\undefined"

NameOk == "Dr. Lana Mann"
EmailA == "lana@example.com"
EmailB == "garrison@example.com"
MobileOk == "+63-946-922-8301"
PostCodeOk == "1588"
BadEmail == "not-an-email"
BadMobile == "12345"
BadType == "BOGUS"

Emails == {EmailA, EmailB}

\* class-validator predicates on the sample values
IsString(v) == v # Undefined
IsNotEmpty(v) == v # Undefined /\ v # ""
IsEmail(v) == v \in Emails
IsPhoneNumberPH(v) == v = MobileOk
IsEnumEach(list) == \A i \in 1..Len(list) : list[i] \in ServiceType
\* a variant without the constraint on the size of the array
ArrayMinSize_Absent(list, n) == TRUE
\* a variant that applies MinLength, a string constraint no array satisfies
ArrayMinSize_AsMinLength(list, n) == FALSE
ArrayMinSize(list, n) == Len(list) >= n

Msg(ok, text) == IF ok THEN <<>> ELSE <<text>>

\* the constraint messages class-validator collects for a RegisterInput
ValidationErrors(p) ==
     Msg(IsNotEmpty(p.name), <<"name should not be empty">>)
  \o Msg(IsString(p.name), <<"name must be a string">>)
  \o Msg(IsNotEmpty(p.email), <<"email should not be empty">>)
  \o Msg(IsEmail(p.email), <<"email must be an email">>)
  \o Msg(IsPhoneNumberPH(p.mobile), ERROR_MESSAGES.INVALID_PHONE_NUMBER)
  \o Msg(IsNotEmpty(p.mobile), <<"mobile should not be empty">>)
  \o Msg(IsNotEmpty(p.postCode), <<"postCode should not be empty">>)
  \o Msg(IsString(p.postCode), <<"postCode must be a string">>)
  \o Msg(ArrayMinSize(p.serviceType, 1), ERROR_MESSAGES.MINIMUM_SERVICE_TYPE)
  \o Msg(IsEnumEach(p.serviceType),
         <<"each value in serviceType must be a valid enum value">>)

\* RegisterInput passes the ValidationPipe
Validates(p) == ValidationErrors(p) = <<>>

\* the exception the ValidationPipe throws for a rejected payload
ValidationException(p) ==
  HttpException("BadRequestException", BAD_REQUEST,
                [kind |-> "object", statusCode |-> BAD_REQUEST,
                 messages |-> ValidationErrors(p),
                 error |-> <<"Bad Request">>],
                <<"Bad Request Exception">>)

\* the schema's non-null String fields and [ServiceType!]! list: what the
\* GraphQL layer lets through to the resolver
Coerces(p) ==
  /\ p.name # Undefined /\ p.email # Undefined
  /\ p.mobile # Undefined /\ p.postCode # Undefined
  /\ IsEnumEach(p.serviceType)

\* the GraphQLError raised for a payload the schema rejects
CoercionError ==
  [class |-> "GraphQLError",
   message |-> <<"Variable \"$input\" got invalid value">>,
   extensions |-> [code |-> "BAD_USER_INPUT"]]

BasePayload ==
  [name |-> NameOk, email |-> EmailA, mobile |-> MobileOk,
   postCode |-> PostCodeOk, serviceType |-> <<"DELIVERY">>]

\* the three types in the order of the repository test's list
\* [...defaultServiceTypes, ServiceType.PICKUP]
updatedServiceTypes == <<"DELIVERY", "PAYMENT", "PICKUP">>

\* the serviceType lists of valid payloads: the lists of 1..MaxTypes
\* consecutive types of updatedServiceTypes, read cyclically from each of
\* its positions, and the lists that repeat one type
TypeLists ==
  {[i \in 1..n |-> updatedServiceTypes[((k + i - 2) % 3) + 1]] :
     k \in 1..3, n \in 1..MaxTypes}
    \cup SeqsUpTo({"DELIVERY"}, 1, MaxTypes)

\* lists of 1..MaxTypes elements with at least one value outside the enum
BadTypeLists ==
  SeqsUpTo({"DELIVERY", BadType}, 1, MaxTypes)
    \ SeqsUpTo({"DELIVERY"}, 1, MaxTypes)

\* payloads the validator accepts: both emails, every list of TypeLists
ValidPayloads ==
  {[BasePayload EXCEPT !.email = e, !.serviceType = t] :
     e \in Emails, t \in TypeLists}

\* payloads with one defective property
DefectivePayloads ==
       {[BasePayload EXCEPT !.name = v] : v \in {Undefined, ""}}
  \cup {[BasePayload EXCEPT !.email = v] : v \in {Undefined, "", BadEmail}}
  \cup {[BasePayload EXCEPT !.mobile = v] : v \in {Undefined, "", BadMobile}}
  \cup {[BasePayload EXCEPT !.postCode = v] : v \in {Undefined, ""}}
  \cup {[BasePayload EXCEPT !.serviceType = t] :
          t \in {<<>>} \cup BadTypeLists}

Payloads == ValidPayloads \cup DefectivePayloads

----------------------------------------------------------------------------
(* Storage errors *)

emailField == <<"e","m","a","i","l">>
leadIdField == <<"l","e","a","d","I","d">>
serviceTypeField == <<"s","e","r","v","i","c","e","T","y","p","e">>

StringItem(v) == [t |-> "string", v |-> v]

\* PrismaClientKnownRequestError P2002 with meta.target naming the index
UniqueConstraintError(fields) ==
  [class |-> "PrismaClientKnownRequestError",
   code |-> PRISMA_ERROR_CODES.PRISMA_UNIQUE_CONSTRAINT,
   message |-> <<"Unique constraint failed on the fields">>,
   meta |-> [kind |-> "array", items |-> MapSeq(fields, StringItem)]]

\* faults of the storage client that no payload causes: a known request
\* error of another code (pool timeout) and an error that is no known
\* request error (connection lost)
StorageFaults ==
  {[class |-> "PrismaClientKnownRequestError", code |-> "P2024",
    message |-> <<"Timed out fetching a new connection from the pool">>,
    meta |-> [kind |-> "absent"]],
   [class |-> "Error", message |-> <<"Database connection error">>]}

\* the client refuses input that does not fit the schema before any query
ClientValidationError ==
  [class |-> "PrismaClientValidationError",
   message |-> <<"Invalid prisma.lead.create() invocation">>]

----------------------------------------------------------------------------
(* Callers and initial state *)

\* the two callers whose register calls may overlap
Req == {"r1", "r2"}

vars == <<leads, interests, leadSeq, interestSeq, pc, input, tx, thrown,
          result, calls, probe, embedsOriginal, http>>
store == <<leads, interests>>

NoPayload ==
  [name |-> Undefined, email |-> Undefined, mobile |-> Undefined,
   postCode |-> Undefined, serviceType |-> <<>>]
NoTx == [lead |-> <<>>, interests |-> <<>>]
NoError == [class |-> "none"]
NoLead == [id |-> 0]
NoResponse == [kind |-> "none"]
NoProbe == [at |-> "none"]
NoHttp == [installed |-> FALSE]

Init ==
  /\ leads = {}
  /\ interests = {}
  /\ leadSeq = 1
  /\ interestSeq = 1
  /\ pc = [r \in Req |-> "idle"]
  /\ input = [r \in Req |-> NoPayload]
  /\ tx = [r \in Req |-> NoTx]
  /\ thrown = [r \in Req |-> NoError]
  /\ result = [r \in Req |-> NoLead]
  /\ calls = [r \in Req |-> 0]
  /\ probe = NoProbe
  /\ embedsOriginal \in BOOLEAN
  /\ http = NoHttp

----------------------------------------------------------------------------
(* LeadsService.registerLead and the way back to the caller *)

\* the exception LeadsRepository.create throws for a storage error
CreateThrows(error) == handlePrismaError(error)

\* the exception registerLead throws when create threw
RegisterLeadThrows(error) == handleError(CreateThrows(error))

\* the envelope registerLead returns when create resolved
RegisterLeadReturns(lead) ==
  handleSuccess(lead, SUCCESS_MESSAGES.REGISTERED, CREATED)

\* the caller's response when the schema or the ValidationPipe threw
RejectedResponse(exception) ==
  IF IsHttpException(exception) THEN ErrorResponse(exception)
  ELSE [kind |-> "errors",
        error |-> formatGraphQLError(Formatted(exception, <<>>))]

\* prismaService.lead.create rejected with error: the transaction is rolled
\* back and the error is thrown into create's catch block
Fail(r, error) ==
  /\ pc' = [pc EXCEPT ![r] = "failed"]
  /\ tx' = [tx EXCEPT ![r] = NoTx]
  /\ thrown' = [thrown EXCEPT ![r] = error]

----------------------------------------------------------------------------
(* LeadsResolver.register behind the schema and the ValidationPipe *)

\* a variant without input validation
PipeAccepts_NoValidation(p) == TRUE

\* the payload passes the schema and every RegisterInput constraint
PipeAccepts(p) == Coerces(p) /\ Validates(p)

\* a variant that validates the payload after the storage call was made
Register_ValidatesAfter(r, p) ==
  /\ pc[r] = "idle"
  /\ input' = [input EXCEPT ![r] = p]
  /\ calls' = [calls EXCEPT ![r] = @ + 1]
  /\ IF PipeAccepts(p)
       THEN /\ pc' = [pc EXCEPT ![r] = "calling"]
            /\ UNCHANGED thrown
       ELSE /\ pc' = [pc EXCEPT ![r] = "rejected"]
            /\ thrown' = [thrown EXCEPT ![r] =
                 IF Coerces(p) THEN ValidationException(p) ELSE CoercionError]
  /\ UNCHANGED <<leads, interests, leadSeq, interestSeq, tx, result, probe,
                 embedsOriginal, http>>

\* A caller sends the mutation with payload p. For a rejected payload the
\* pipe throws at once; an accepted one runs register -> registerLead ->
\* create up to the await of prismaService.lead.create.
Register(r, p) ==
  /\ pc[r] = "idle"
  /\ input' = [input EXCEPT ![r] = p]
  /\ IF PipeAccepts(p)
       THEN /\ pc' = [pc EXCEPT ![r] = "calling"]
            /\ calls' = [calls EXCEPT ![r] = @ + 1]
            /\ UNCHANGED thrown
       ELSE /\ pc' = [pc EXCEPT ![r] = "rejected"]
            /\ thrown' = [thrown EXCEPT ![r] =
                 IF Coerces(p) THEN ValidationException(p) ELSE CoercionError]
            /\ UNCHANGED calls
  /\ UNCHANGED <<leads, interests, leadSeq, interestSeq, tx, result, probe, embedsOriginal, http>>

----------------------------------------------------------------------------
(* LeadsRepository.create: prismaService.lead.create with nested creates *)

\* const { serviceType, ...leadData } = data
LeadData(data, id) ==
  [id |-> id, name |-> data.name, mobile |-> data.mobile,
   email |-> data.email, postCode |-> data.postCode]

\* a variant that maps each type once, at its first position
NestedCreates_Distinct(data) ==
  MapSeq(SelectSeq([i \in 1..Len(data.serviceType) |->
                      IF \E j \in 1..(i - 1) :
                           data.serviceType[j] = data.serviceType[i]
                        THEN Undefined ELSE data.serviceType[i]],
                   LAMBDA type : type # Undefined),
         LAMBDA type : [serviceType |-> type])

\* a variant that maps only the first element of serviceType
NestedCreates_FirstOnly(data) ==
  MapSeq(SubSeq(data.serviceType, 1, 1), LAMBDA type : [serviceType |-> type])

\* serviceType.map((type) => ({ serviceType: type })), spread only when
\* serviceType?.length is truthy
NestedCreates(data) ==
  MapSeq(data.serviceType, LAMBDA type : [serviceType |-> type])

\* a variant that hands the payload to the store as it came
createLeadInput_WholePayload(data) == data

\* createLeadInput: { ...leadData, ...(serviceType?.length && { ServiceInterest:
\* { create: [...] } }) }
createLeadInput(data) ==
  Spread([k \in DOMAIN data \ {"serviceType"} |-> data[k]],
         IF Len(data.serviceType) > 0
           THEN [ServiceInterest |-> [create |-> NestedCreates(data)]]
           ELSE [k \in {} |-> TRUE])

\* includeServiceInterest
includeServiceInterest == [ServiceInterest |-> TRUE]

\* the argument of prismaService.lead.create
LeadCreateArgs(data) ==
  [data |-> createLeadInput(data), include |-> includeServiceInterest]

\* return newLeadData
CreateReturns(newLeadData) == newLeadData

\* the input fits the client's schema types
FitsSchema(data) ==
  /\ data.name # Undefined /\ data.email # Undefined
  /\ data.mobile # Undefined /\ data.postCode # Undefined
  /\ IsEnumEach(data.serviceType)

\* unique index Lead_email_key against committed rows
EmailTaken(email) == \E l \in leads : l.email = email

\* another open transaction holds an uncommitted row with this email: the
\* insert waits for that transaction to end
EmailPending(r, email) ==
  \E o \in Req \ {r} : tx[o].lead # <<>> /\ tx[o].lead[1].email = email

\* unique index ServiceInterest_leadId_serviceType_key within the
\* transaction's own rows (the leadId is new, no committed row carries it)
InterestTaken(rows, row) ==
  \E i \in 1..Len(rows) :
    rows[i].leadId = row.leadId /\ rows[i].serviceType = row.serviceType

\* a variant in which the Lead insert is committed on its own
InsertLead_Autocommit(r) ==
  /\ pc[r] = "calling"
  /\ ~EmailPending(r, input[r].email)
  /\ IF ~FitsSchema(input[r])
       THEN /\ Fail(r, ClientValidationError)
            /\ UNCHANGED <<leadSeq, leads>>
       ELSE /\ leadSeq' = leadSeq + 1
            /\ IF EmailTaken(input[r].email)
                 THEN /\ Fail(r, UniqueConstraintError(<<emailField>>))
                      /\ UNCHANGED leads
                 ELSE /\ pc' = [pc EXCEPT ![r] = "inTx"]
                      /\ tx' = [tx EXCEPT ![r].lead =
                                  <<LeadData(input[r], leadSeq)>>]
                      /\ leads' = leads \cup {LeadData(input[r], leadSeq)}
                      /\ UNCHANGED thrown
  /\ UNCHANGED <<interests, interestSeq, input, result, calls, probe, embedsOriginal, http>>

\* a variant without the unique index on Lead.email
InsertLead_NoEmailIndex(r) ==
  /\ pc[r] = "calling"
  /\ IF ~FitsSchema(input[r])
       THEN /\ Fail(r, ClientValidationError)
            /\ UNCHANGED leadSeq
       ELSE /\ leadSeq' = leadSeq + 1
            /\ pc' = [pc EXCEPT ![r] = "inTx"]
            /\ tx' = [tx EXCEPT ![r].lead = <<LeadData(input[r], leadSeq)>>]
            /\ UNCHANGED thrown
  /\ UNCHANGED <<leads, interests, interestSeq, input, result, calls, probe, embedsOriginal, http>>

\* a variant that replaces the stored Lead of the same email
InsertLead_Replace(r) ==
  /\ pc[r] = "calling"
  /\ ~EmailPending(r, input[r].email)
  /\ IF ~FitsSchema(input[r])
       THEN /\ Fail(r, ClientValidationError)
            /\ UNCHANGED <<leadSeq, leads, interests>>
       ELSE /\ leadSeq' = leadSeq + 1
            /\ leads' = {l \in leads : l.email # input[r].email}
            /\ interests' = {w \in interests :
                               \E l \in leads' : l.id = w.leadId}
            /\ pc' = [pc EXCEPT ![r] = "inTx"]
            /\ tx' = [tx EXCEPT ![r].lead = <<LeadData(input[r], leadSeq)>>]
            /\ UNCHANGED thrown
  /\ UNCHANGED <<interestSeq, input, result, calls, probe, embedsOriginal, http>>

\* a variant in which the insert of a stored email waits and never answers
InsertLead_Waits(r) ==
  /\ pc[r] = "calling"
  /\ ~EmailPending(r, input[r].email)
  /\ ~EmailTaken(input[r].email)
  /\ IF ~FitsSchema(input[r])
       THEN /\ Fail(r, ClientValidationError)
            /\ UNCHANGED leadSeq
       ELSE /\ leadSeq' = leadSeq + 1
            /\ pc' = [pc EXCEPT ![r] = "inTx"]
            /\ tx' = [tx EXCEPT ![r].lead = <<LeadData(input[r], leadSeq)>>]
            /\ UNCHANGED thrown
  /\ UNCHANGED <<leads, interests, interestSeq, input, result, calls, probe,
                 embedsOriginal, http>>

\* INSERT INTO "Lead": the first statement of the transaction
InsertLead(r) ==
  /\ pc[r] = "calling"
  /\ ~EmailPending(r, input[r].email)
  /\ IF ~FitsSchema(input[r])
       THEN /\ Fail(r, ClientValidationError)
            /\ UNCHANGED leadSeq
       ELSE /\ leadSeq' = leadSeq + 1
            /\ IF EmailTaken(input[r].email)
                 THEN Fail(r, UniqueConstraintError(<<emailField>>))
                 ELSE /\ pc' = [pc EXCEPT ![r] = "inTx"]
                      /\ tx' = [tx EXCEPT ![r].lead =
                                  <<LeadData(input[r], leadSeq)>>]
                      /\ UNCHANGED thrown
  /\ UNCHANGED <<leads, interests, interestSeq, input, result, calls, probe, embedsOriginal, http>>

\* a variant without the unique index on (leadId, serviceType)
InsertInterest_NoPairIndex(r) ==
  /\ pc[r] = "inTx"
  /\ Len(tx[r].interests) < Len(NestedCreates(input[r]))
  /\ LET create == NestedCreates(input[r])[Len(tx[r].interests) + 1]
         row == [id |-> interestSeq, leadId |-> tx[r].lead[1].id,
                 serviceType |-> create.serviceType]
     IN /\ tx' = [tx EXCEPT ![r].interests = Append(@, row)]
        /\ UNCHANGED <<pc, thrown>>
  /\ interestSeq' = interestSeq + 1
  /\ UNCHANGED <<leads, interests, leadSeq, input, result, calls, probe,
                 embedsOriginal, http>>

\* INSERT INTO "ServiceInterest" for the next nested create
InsertInterest(r) ==
  /\ pc[r] = "inTx"
  /\ Len(tx[r].interests) < Len(NestedCreates(input[r]))
  /\ LET create == NestedCreates(input[r])[Len(tx[r].interests) + 1]
         row == [id |-> interestSeq, leadId |-> tx[r].lead[1].id,
                 serviceType |-> create.serviceType]
     IN IF InterestTaken(tx[r].interests, row)
          THEN Fail(r, UniqueConstraintError(<<leadIdField, serviceTypeField>>))
          ELSE /\ tx' = [tx EXCEPT ![r].interests = Append(@, row)]
               /\ UNCHANGED <<pc, thrown>>
  /\ interestSeq' = interestSeq + 1
  /\ UNCHANGED <<leads, interests, leadSeq, input, result, calls, probe, embedsOriginal, http>>

\* the orders in which SELECT ... FROM "ServiceInterest" WHERE "leadId" = id
\* can return n rows: include { ServiceInterest: true } carries no orderBy,
\* and SQL fixes no order for a query without ORDER BY
ReadOrders(n) ==
  {f \in [1..n -> 1..n] : \A i \in 1..n : \A j \in 1..n : f[i] = f[j] => i = j}

\* the rows of include { ServiceInterest: true }, read in order f
IncludeServiceInterest(rows, f) == [i \in 1..Len(rows) |-> rows[f[i]]]

\* every nested create is written: the created Lead is read back with its
\* ServiceInterest rows, the transaction commits and create returns the Lead
Commit(r) ==
  /\ pc[r] = "inTx"
  /\ Len(tx[r].interests) = Len(NestedCreates(input[r]))
  /\ leads' = leads \cup {tx[r].lead[1]}
  /\ interests' = interests \cup
                    {tx[r].interests[i] : i \in 1..Len(tx[r].interests)}
  /\ \E f \in ReadOrders(Len(tx[r].interests)) :
       result' = [result EXCEPT ![r] =
         Spread(tx[r].lead[1],
                [ServiceInterest |->
                   IncludeServiceInterest(tx[r].interests, f)])]
  /\ tx' = [tx EXCEPT ![r] = NoTx]
  /\ pc' = [pc EXCEPT ![r] = "created"]
  /\ UNCHANGED <<leadSeq, interestSeq, input, thrown, calls, probe, embedsOriginal, http>>

\* the storage client fails for a reason outside the payload: before the
\* first statement, or at COMMIT with every row written, and the
\* transaction is rolled back
Fault(r, error) ==
  /\ \/ pc[r] = "calling"
     \/ pc[r] = "inTx" /\ Len(tx[r].interests) = Len(NestedCreates(input[r]))
  /\ Fail(r, error)
  /\ UNCHANGED <<leads, interests, leadSeq, interestSeq, input, result,
                 calls, probe, embedsOriginal, http>>

\* the call has ended: the pipe threw, registerLead threw, or it returned
Done(r) == pc[r] \in {"rejected", "failed", "created"}

\* what the caller of a call that has ended receives
Response(r) ==
  CASE pc[r] = "created" -> DataResponse(RegisterLeadReturns(result[r]))
    [] pc[r] = "failed" -> ErrorResponse(RegisterLeadThrows(thrown[r]))
    [] pc[r] = "rejected" -> RejectedResponse(thrown[r])
    [] OTHER -> NoResponse

Next ==
  \/ \E r \in Req, p \in Payloads : Register(r, p)
  \/ \E r \in Req : InsertLead(r)
  \/ \E r \in Req : InsertInterest(r)
  \/ \E r \in Req : Commit(r)
  \/ \E r \in Req, error \in StorageFaults : Fault(r, error)

Spec == Init /\ [][Next]_vars

----------------------------------------------------------------------------
(* The error path alone: any throwable, entering at any layer *)

TargetItems ==
  {StringItem(emailField), StringItem(leadIdField),
   StringItem(serviceTypeField), [t |-> "other"]}

\* shapes of error.meta: absent, without target, target of another type,
\* target a string, target an array
Metas ==
       {[kind |-> "absent"], [kind |-> "noTarget"], [kind |-> "other"]}
  \cup {[kind |-> "string", value |-> f] :
          f \in {emailField, leadIdField, serviceTypeField}}
  \cup {[kind |-> "array", items |-> items] :
          items \in SeqsUpTo(TargetItems, 0, MaxTarget)}

ErrorTexts ==
  {<<"Unique constraint failed on the fields">>,
   <<"connect ECONNREFUSED 10.0.0.5:5432">>}

KnownRequestErrors ==
       {[class |-> "PrismaClientKnownRequestError", code |-> "P2002",
         message |-> <<"Unique constraint failed on the fields">>,
         meta |-> meta] : meta \in Metas}
  \cup {[class |-> "PrismaClientKnownRequestError", code |-> code,
         message |-> text, meta |-> [kind |-> "absent"]] :
          code \in {"P2025", "P2024"}, text \in ErrorTexts}

PlainErrors == {[class |-> "Error", message |-> text] : text \in ErrorTexts}

NonErrors == {[class |-> "NonError"]}

\* what the storage client can throw inside create
StorageThrowables ==
  KnownRequestErrors \cup PlainErrors \cup {ClientValidationError}

HttpExceptions ==
       {CreateThrows(error) : error \in StorageThrowables}
  \cup {ValidationException(p) : p \in DefectivePayloads}
  \cup {HttpException("HttpException", status,
                      [kind |-> "string", text |-> <<"Forbidden">>],
                      <<"Http Exception">>) : status \in {403}}

GraphQLErrors ==
  {[class |-> "GraphQLError", message |-> <<"Cannot query field">>,
    extensions |-> ext] :
     ext \in {[code |-> "BAD_USER_INPUT"],
              [status |-> NOT_FOUND],
              [code |-> "FORBIDDEN", status |-> 403]}}

\* what can be thrown inside registerLead's try block and to the filter
ServiceThrowables ==
  HttpExceptions \cup StorageThrowables \cup NonErrors
FilterThrowables ==
  HttpExceptions \cup GraphQLErrors \cup PlainErrors \cup NonErrors

Probes ==
       {[at |-> "create", entry |-> "create", origin |-> e, value |-> e] :
          e \in StorageThrowables \cup NonErrors}
  \cup {[at |-> "registerLead", entry |-> "registerLead", origin |-> e,
         value |-> e] : e \in ServiceThrowables}
  \cup {[at |-> "filter", entry |-> "filter", origin |-> e, value |-> e] :
          e \in FilterThrowables}

MapInit ==
  /\ embedsOriginal \in BOOLEAN
  /\ http = NoHttp
  /\ leads = {}
  /\ interests = {}
  /\ leadSeq = 1
  /\ interestSeq = 1
  /\ pc = [r \in Req |-> "idle"]
  /\ input = [r \in Req |-> NoPayload]
  /\ tx = [r \in Req |-> NoTx]
  /\ thrown = [r \in Req |-> NoError]
  /\ result = [r \in Req |-> NoLead]
  /\ calls = [r \in Req |-> 0]
  /\ probe \in Probes

Advance(to, value) ==
  /\ probe' = [probe EXCEPT !.at = to, !.value = value]
  /\ UNCHANGED <<leads, interests, leadSeq, interestSeq, pc, input, tx,
                 thrown, result, calls, embedsOriginal, http>>

\* a variant of create whose catch block throws the error on
CreateCatch_Rethrow ==
  /\ probe.at = "create"
  /\ Advance("registerLead", probe.value)

\* LeadsRepository.create: catch (error) { this.handlePrismaError(error) }
CreateCatch ==
  /\ probe.at = "create"
  /\ Advance("registerLead", handlePrismaError(probe.value))

\* LeadsService.registerLead: catch (error) { handleError(error) }
RegisterLeadCatch ==
  /\ probe.at = "registerLead"
  /\ Advance("filter", handleError(probe.value))

\* GraphQLErrorFilter.catch
FilterStep ==
  /\ probe.at = "filter"
  /\ Advance("formatter", FilterCatch(probe.value))

\* formatError: formatGraphQLError
FormatStep ==
  /\ probe.at = "formatter"
  /\ Advance("client", formatGraphQLError(Formatted(probe.value, <<"register">>)))

MapNext == CreateCatch \/ RegisterLeadCatch \/ FilterStep \/ FormatStep

MapSpec == MapInit /\ [][MapNext]_vars

TypeOK ==
  /\ \A r \in Req : pc[r] \in {"idle", "calling", "inTx", "rejected",
                                "failed", "created"}
  /\ leadSeq \in Nat /\ interestSeq \in Nat
  /\ embedsOriginal \in BOOLEAN

----------------------------------------------------------------------------
(* Vocabulary of the properties *)

Range(seq) == {seq[i] : i \in 1..Len(seq)}

\* the call ended with an error of the storage client that no payload causes
Faulted(r) == pc[r] = "failed" /\ thrown[r] \in StorageFaults

\* the call ended because its email was already stored
EmailConflict(r) ==
  pc[r] = "failed" /\ thrown[r] = UniqueConstraintError(<<emailField>>)

\* the call ended because its payload repeats a service type
TypeConflict(r) ==
  /\ pc[r] = "failed"
  /\ thrown[r] = UniqueConstraintError(<<leadIdField, serviceTypeField>>)

\* status, code and message the caller of a failed call sees
Seen(r) ==
  <<Response(r).error.status, Response(r).error.code, Response(r).error.message>>

\* the text "Email already exists"
EmailAlreadyExists == <<"E","m","a","i","l"," already exists">>

\* the object the caller finds in the response: data.register or errors[0]
Envelope(r) ==
  IF Response(r).kind = "data" THEN Response(r).register ELSE Response(r).error

\* rows of ServiceInterest that reference lead id
InterestsOf(id) == {s \in interests : s.leadId = id}

\* a property is missing when it was not sent or is the empty string
Missing(v) == v = Undefined \/ v = ""

\* the payload lacks name, email, mobile or postCode, or has no service type
Incomplete(p) ==
  \/ Missing(p.name) \/ Missing(p.email) \/ Missing(p.mobile)
  \/ Missing(p.postCode) \/ p.serviceType = <<>>

----------------------------------------------------------------------------
(* C1 *)

\* C1: every call whose payload passes validation and whose email is not
\* stored (and whose storage client does not fault) gets success=true,
\* statusCode 201, "Lead registered successfully", and as many
\* ServiceInterest entries as the payload has distinct service types,
\* payloads that repeat a type included.
C1_ValidPayloadRegisters ==
  \A r \in Req :
    (Done(r) /\ PipeAccepts(input[r]) /\ ~Faulted(r) /\ ~EmailConflict(r))
      => /\ Response(r).kind = "data"
         /\ Response(r).register.success = TRUE
         /\ Response(r).register.statusCode = CREATED
         /\ Response(r).register.message = <<"Lead registered successfully">>
         /\ Len(Response(r).register.data.ServiceInterest)
              = Cardinality(Range(input[r].serviceType))

\* the same for the payloads that repeat no service type
C1_WithoutRepeats ==
  \A r \in Req :
    (/\ Done(r) /\ PipeAccepts(input[r]) /\ ~Faulted(r) /\ ~EmailConflict(r)
     /\ Cardinality(Range(input[r].serviceType)) = Len(input[r].serviceType))
      => /\ Response(r).kind = "data"
         /\ Response(r).register.success = TRUE
         /\ Response(r).register.statusCode = CREATED
         /\ Response(r).register.message = <<"Lead registered successfully">>
         /\ Len(Response(r).register.data.ServiceInterest)
              = Cardinality(Range(input[r].serviceType))

----------------------------------------------------------------------------
(* C2 *)

----------------------------------------------------------------------------
(* C3 *)

\* C3: two overlapping calls with valid payloads (no storage fault): with
\* different emails both succeed; with equal emails exactly one succeeds, the
\* other gets 409, and the store holds exactly one Lead for the email and
\* only the winner's ServiceInterest rows.
C3_ConcurrentPair ==
  (\A r \in Req : Done(r) /\ PipeAccepts(input[r]) /\ ~Faulted(r))
    => IF input["r1"].email # input["r2"].email
         THEN \A r \in Req : pc[r] = "created"
         ELSE \E w \in Req : \E l \in Req \ {w} :
                /\ pc[w] = "created"
                /\ pc[l] = "failed"
                /\ Response(l).error.status = CONFLICT
                /\ {row \in leads : row.email = input[w].email}
                     = {[id |-> result[w].id, name |-> input[w].name,
                         mobile |-> input[w].mobile, email |-> input[w].email,
                         postCode |-> input[w].postCode]}
                /\ interests = Range(result[w].ServiceInterest)

\* the same pair of calls, for payloads that repeat no service type
C3_PairWithoutRepeats ==
  (\A r \in Req :
      /\ Done(r) /\ PipeAccepts(input[r]) /\ ~Faulted(r)
      /\ Cardinality(Range(input[r].serviceType)) = Len(input[r].serviceType))
    => C3_ConcurrentPair

----------------------------------------------------------------------------
(* C4 *)

\* C4: in every reachable state each committed Lead row belongs to a call
\* that returned, with exactly one committed ServiceInterest row per element
\* of that call's payload; no ServiceInterest row lacks its Lead; a call
\* that failed left no row.
C4_AtomicWrite ==
  /\ \A l \in leads :
       \E r \in Req :
         /\ pc[r] = "created"
         /\ result[r].id = l.id
         /\ InterestsOf(l.id) = Range(result[r].ServiceInterest)
         /\ Cardinality(InterestsOf(l.id)) = Len(input[r].serviceType)
         /\ {s.serviceType : s \in InterestsOf(l.id)}
              = Range(input[r].serviceType)
  /\ \A s \in interests : \E l \in leads : l.id = s.leadId
  /\ Cardinality(leads) = Cardinality({r \in Req : pc[r] = "created"})

\* one call failed on a ServiceInterest insertion after its Lead insert while
\* the other call has its Lead and part of its ServiceInterest rows written
C4_Witness ==
  \E r \in Req : \E o \in Req \ {r} :
    /\ TypeConflict(r)
    /\ pc[o] = "inTx"
    /\ Len(tx[o].interests) = 1
    /\ Len(input[o].serviceType) = 2

----------------------------------------------------------------------------
(* C5 *)

\* C5: no two committed Lead rows share an email, and the response to a
\* duplicate email (409, CONFLICT, "Email already exists") is the response
\* of no other failure: a failed or rejected call sees it exactly when it was
\* rejected for a duplicate email.
C5_UniqueEmail ==
  /\ \A a \in leads : \A b \in leads : a.email = b.email => a = b
  /\ \A r \in Req :
       pc[r] \in {"failed", "rejected"}
         => (EmailConflict(r)
               <=> Seen(r) = <<CONFLICT, "CONFLICT", EmailAlreadyExists>>)

\* one call was rejected for a duplicate email while exactly one Lead row
\* carries that email
C5_Witness ==
  \E r \in Req :
    /\ EmailConflict(r)
    /\ Cardinality({l \in leads : l.email = input[r].email}) = 1
    /\ Seen(r) = <<CONFLICT, "CONFLICT", EmailAlreadyExists>>

----------------------------------------------------------------------------
(* C6 *)

----------------------------------------------------------------------------
(* C7 *)

----------------------------------------------------------------------------
(* C8 *)

\* the kind an exception carries when it enters the failure path: the four
\* kinds of the taxonomy are the HttpExceptions of status 400, 409, 404 and
\* 500; anything else carries no recognised kind
KindOf(e) ==
  IF ~IsHttpException(e) THEN "none"
  ELSE CASE e.status = BAD_REQUEST -> "validation"
         [] e.status = CONFLICT -> "conflict"
         [] e.status = NOT_FOUND -> "notFound"
         [] e.status = INTERNAL_SERVER_ERROR -> "internal"
         [] OTHER -> "none"

StatusOfKind ==
  [validation |-> BAD_REQUEST, conflict |-> CONFLICT, notFound |-> NOT_FOUND,
   internal |-> INTERNAL_SERVER_ERROR, none |-> INTERNAL_SERVER_ERROR]

CodeOfKind ==
  [conflict |-> "CONFLICT", notFound |-> "NOT_FOUND",
   internal |-> "INTERNAL_SERVER_ERROR", none |-> "INTERNAL_SERVER_ERROR"]

\* C8: an error that entered the failure path (handleError, then the filter
\* and the formatter) reaches the caller with the status of its kind alone:
\* validation 400, conflict 409, not-found 404, internal 500, and an error
\* of no recognised kind as internal, 500.
C8_StatusByKind ==
  (probe.at = "client" /\ probe.entry \in {"registerLead", "filter"})
    => /\ probe.value.status = StatusOfKind[KindOf(probe.origin)]
       /\ KindOf(probe.origin) # "validation"
            => probe.value.code = CodeOfKind[KindOf(probe.origin)]

\* the same mapping for the errors that carry one of the four kinds
C8_RecognisedKinds ==
  (/\ probe.at = "client" /\ probe.entry \in {"registerLead", "filter"}
   /\ KindOf(probe.origin) # "none")
    => /\ probe.value.status = StatusOfKind[KindOf(probe.origin)]
       /\ KindOf(probe.origin) # "validation"
            => probe.value.code = CodeOfKind[KindOf(probe.origin)]

----------------------------------------------------------------------------
(* C9 *)

\* C9: a call that failed at persistence for a reason other than a duplicate
\* email is answered with status 500 and a message that holds no part of the
\* text of the error the storage client threw.
C9_OtherFailuresAreInternal ==
  \A r \in Req :
    (pc[r] = "failed" /\ ~EmailConflict(r))
      => /\ Response(r).error.status = INTERNAL_SERVER_ERROR
         /\ Range(Response(r).error.message) \cap Range(thrown[r].message) = {}

\* the same for the failures that are no unique-constraint error at all:
\* status 500 always, and no part of the storage error's text unless the
\* error is a known request error and DATABASE_ERROR embeds its message
C9_FailuresWithoutConflict ==
  \A r \in Req :
    (pc[r] = "failed" /\ ~EmailConflict(r) /\ ~TypeConflict(r))
      => /\ Response(r).error.status = INTERNAL_SERVER_ERROR
         /\ (~IsKnownRequestError(thrown[r]) \/ ~embedsOriginal)
              => Range(Response(r).error.message)
                   \cap Range(thrown[r].message) = {}

----------------------------------------------------------------------------
(* C10 *)

\* String.prototype.split on a separator token
RECURSIVE SplitOn(_, _)
SplitOn(tokens, sep) ==
  IF tokens = <<>> THEN << <<>> >>
  ELSE LET rest == SplitOn(Tail(tokens), sep) IN
       IF Head(tokens) = sep THEN << <<>> >> \o rest
       ELSE << <<Head(tokens)>> \o Head(rest) >> \o Tail(rest)

\* the field names of the two unique indexes, first letter in upper case
Capitalised ==
  [f \in {emailField, leadIdField, serviceTypeField} |->
     CASE f = emailField -> <<"E","m","a","i","l">>
       [] f = leadIdField -> <<"L","e","a","d","I","d">>
       [] f = serviceTypeField ->
            <<"S","e","r","v","i","c","e","T","y","p","e">>]

\* message is "<Name> and <Name> ... already exists" for names, in order
NamesFields(message, names) ==
  /\ message # <<>>
  /\ message[Len(message)] = " already exists"
  /\ names # <<>>
       => SplitOn(SubSeq(message, 1, Len(message) - 1), " and ")
            = [i \in 1..Len(names) |-> Capitalised[names[i]]]
  /\ names = <<emailField>> => message = EmailAlreadyExists

\* create threw a unique-constraint error whose target is an array of field
\* names
UniqueConstraintCase ==
  /\ probe.at # "none"
  /\ probe.entry = "create"
  /\ IsKnownRequestError(probe.origin)
  /\ probe.origin.code = "P2002"
  /\ probe.origin.meta.kind = "array"
  /\ \A i \in 1..Len(probe.origin.meta.items) :
       probe.origin.meta.items[i].t = "string"

OffendingFields ==
  [i \in 1..Len(probe.origin.meta.items) |-> probe.origin.meta.items[i].v]

\* C10: a unique-constraint error (P2002) leaves create as a
\* ConflictException of status 409 and code CONFLICT whose message names
\* every field of the target, first letter capitalised, joined by " and " in
\* the target's order, and reaches the caller with that status, code and
\* message; for the target [email] the message is "Email already exists".
C10_UniqueConstraintMessage ==
  UniqueConstraintCase
    => /\ probe.at = "registerLead"
            => /\ probe.value.name = "ConflictException"
               /\ probe.value.status = CONFLICT
               /\ probe.value.response.code = "CONFLICT"
               /\ NamesFields(probe.value.response.message, OffendingFields)
       /\ probe.at = "client"
            => /\ probe.value.status = CONFLICT
               /\ probe.value.code = "CONFLICT"
               /\ NamesFields(probe.value.message, OffendingFields)

\* the caller was told of a conflict on the two fields of the
\* ServiceInterest index
C10_Witness ==
  /\ UniqueConstraintCase
  /\ probe.at = "client"
  /\ OffendingFields = <<leadIdField, serviceTypeField>>
  /\ probe.value.message
       = <<"L","e","a","d","I","d"," and ",
           "S","e","r","v","i","c","e","T","y","p","e"," already exists">>

----------------------------------------------------------------------------
(* C11 *)

\* create threw the known request error of code `code`
KnownErrorCase(code) ==
  /\ probe.at # "none"
  /\ probe.entry = "create"
  /\ IsKnownRequestError(probe.origin)
  /\ probe.origin.code = code

\* C11: a record-not-found error (P2025) leaves create as a
\* NotFoundException of status 404 and code NOT_FOUND and reaches the caller
\* with that status and code; a unique-constraint error (P2002) is at no
\* stage turned into a not-found error.
C11_NotFoundMapping ==
  /\ KnownErrorCase("P2025")
       => /\ probe.at = "registerLead"
               => /\ probe.value.name = "NotFoundException"
                  /\ probe.value.status = NOT_FOUND
                  /\ probe.value.response.code = "NOT_FOUND"
          /\ probe.at = "client"
               => /\ probe.value.status = NOT_FOUND
                  /\ probe.value.code = "NOT_FOUND"
  /\ KnownErrorCase("P2002")
       => /\ probe.at \in {"registerLead", "filter"}
               => /\ probe.value.name # "NotFoundException"
                  /\ probe.value.status # NOT_FOUND
          /\ probe.at = "client"
               => /\ probe.value.status # NOT_FOUND
                  /\ probe.value.code # "NOT_FOUND"

\* the caller was told that a record was not found
C11_Witness ==
  /\ KnownErrorCase("P2025")
  /\ probe.at = "client"
  /\ probe.value.status = NOT_FOUND
  /\ probe.value.code = "NOT_FOUND"

----------------------------------------------------------------------------
(* C12 *)

\* what the caller receives when create throws error
ClientView(error) == ErrorResponse(RegisterLeadThrows(error)).error

\* create threw a known request error that is neither a unique-constraint
\* nor a record-not-found error
OtherKnownErrorCase ==
  /\ probe.at # "none"
  /\ probe.entry = "create"
  /\ IsKnownRequestError(probe.origin)
  /\ probe.origin.code \notin {"P2002", "P2025"}

\* C12: a known request error of another code leaves create as an
\* InternalServerErrorException of status 500, and what the caller receives
\* is the same for every message the storage error may carry and holds no
\* part of that message.
C12_OtherKnownErrorHidden ==
  OtherKnownErrorCase
    => /\ probe.at = "registerLead"
            => /\ probe.value.name = "InternalServerErrorException"
               /\ probe.value.status = INTERNAL_SERVER_ERROR
       /\ probe.at = "client"
            => /\ probe.value.status = INTERNAL_SERVER_ERROR
               /\ \A text \in ErrorTexts :
                    probe.value
                      = ClientView([probe.origin EXCEPT !.message = text])
               /\ Range(probe.value.message)
                    \cap Range(probe.origin.message) = {}

\* the part of C12 about the status, and the part about the message for a
\* builder that embeds nothing
C12_OtherKnownErrorInternal ==
  OtherKnownErrorCase
    => /\ probe.at = "registerLead"
            => /\ probe.value.name = "InternalServerErrorException"
               /\ probe.value.status = INTERNAL_SERVER_ERROR
       /\ probe.at = "client"
            => /\ probe.value.status = INTERNAL_SERVER_ERROR
               /\ probe.value.code = "INTERNAL_SERVER_ERROR"
               /\ ~embedsOriginal
                    => Range(probe.value.message)
                         \cap Range(probe.origin.message) = {}

----------------------------------------------------------------------------
(* C13 *)

\* create threw something that is no known request error of the storage
\* client
UnknownErrorCase ==
  /\ probe.at # "none"
  /\ probe.entry = "create"
  /\ ~IsKnownRequestError(probe.origin)

\* C13: whatever else is thrown during create (a plain Error, an error of
\* another class, a value that is no Error) leaves create as an
\* InternalServerErrorException of status 500 and code INTERNAL_SERVER_ERROR
\* with the message "Internal Server Error", and the caller receives that
\* status, code and message.
C13_UnknownErrorInternal ==
  UnknownErrorCase
    => /\ probe.at = "registerLead"
            => /\ IsHttpException(probe.value)
               /\ probe.value.name = "InternalServerErrorException"
               /\ probe.value.status = INTERNAL_SERVER_ERROR
               /\ probe.value.response.code = "INTERNAL_SERVER_ERROR"
               /\ probe.value.response.message = <<"Internal Server Error">>
       /\ probe.at = "client"
            => /\ probe.value.status = INTERNAL_SERVER_ERROR
               /\ probe.value.code = "INTERNAL_SERVER_ERROR"
               /\ probe.value.message = <<"Internal Server Error">>

\* a plain Error thrown during create reached the caller as the generic
\* internal error
C13_Witness ==
  /\ UnknownErrorCase
  /\ probe.origin.class = "Error"
  /\ probe.at = "client"
  /\ probe.value.status = INTERNAL_SERVER_ERROR
  /\ probe.value.message = <<"Internal Server Error">>

----------------------------------------------------------------------------
(* C14 *)

\* C14: in every reachable state no two committed ServiceInterest rows, and
\* no two rows written by one open transaction, carry the same leadId and
\* serviceType.
C14_UniqueLeadAndType ==
  /\ \A a \in interests : \A b \in interests :
       (a.leadId = b.leadId /\ a.serviceType = b.serviceType) => a = b
  /\ \A r \in Req : \A i \in 1..Len(tx[r].interests) :
       \A j \in 1..Len(tx[r].interests) :
         (tx[r].interests[i].serviceType = tx[r].interests[j].serviceType)
           => i = j

\* a payload that repeats a type was refused by the index while the store
\* holds a Lead with two ServiceInterest rows
C14_Witness ==
  /\ \E r \in Req : TypeConflict(r)
  /\ \E l \in leads : Cardinality(InterestsOf(l.id)) = 2

----------------------------------------------------------------------------
(* C15 *)

\* the elements of list t are pairwise distinct
PairwiseDistinct(t) ==
  \A i \in DOMAIN t : \A j \in DOMAIN t : t[i] = t[j] => i = j

\* call r returned a Lead for a payload of pairwise-distinct service types
DistinctTypesCreated(r) ==
  /\ pc[r] = "created"
  /\ PairwiseDistinct(input[r].serviceType)

\* the Lead returned to call r owns exactly one stored ServiceInterest row
\* per submitted type, the returned rows are the stored ones, and their ids
\* are pairwise distinct
OneRowPerType(r) ==
  LET rows == result[r].ServiceInterest
      types == input[r].serviceType
  IN /\ Len(rows) = Len(types)
     /\ Range(rows) = InterestsOf(result[r].id)
     /\ Cardinality(InterestsOf(result[r].id)) = Len(types)
     /\ \A i \in DOMAIN types :
          Cardinality({w \in InterestsOf(result[r].id) :
                         w.serviceType = types[i]}) = 1
     /\ PairwiseDistinct([i \in DOMAIN rows |-> rows[i].id])

\* C15: a call that returned for a payload of n pairwise-distinct service
\* types (n in 1..3) has a Lead with exactly n ServiceInterest rows, one per
\* submitted type with pairwise-distinct ids, and the returned list carries
\* the types in the submitted order.
C15_InterestPerTypeInOrder ==
  \A r \in Req :
    DistinctTypesCreated(r) =>
      /\ OneRowPerType(r)
      /\ \A i \in DOMAIN input[r].serviceType :
           result[r].ServiceInterest[i].serviceType = input[r].serviceType[i]

\* the part of C15 that does not depend on the order of the returned list
C15_InterestPerType ==
  \A r \in Req : DistinctTypesCreated(r) => OneRowPerType(r)

\* a payload of three distinct types was registered
C15_Witness ==
  \E r \in Req :
    /\ DistinctTypesCreated(r)
    /\ Len(input[r].serviceType) = 3

----------------------------------------------------------------------------
(* C16 *)

\* SELECT * FROM "Lead" WHERE id = id
ReadLead(id) == {l \in leads : l.id = id}

\* the service types of the rows of ServiceInterest that reference lead id
ReadTypes(id) == {w.serviceType : w \in InterestsOf(id)}

\* C16: at every state after a call returned a created Lead, the store holds
\* exactly one Lead under the returned id, its name, mobile, email and
\* postCode are those of the submitted payload, and the set of service types
\* of its ServiceInterest rows is the set of the submitted types.
C16_RoundTrip ==
  \A r \in Req :
    pc[r] = "created" =>
      /\ Cardinality(ReadLead(result[r].id)) = 1
      /\ \A l \in ReadLead(result[r].id) :
           /\ l.name = input[r].name
           /\ l.mobile = input[r].mobile
           /\ l.email = input[r].email
           /\ l.postCode = input[r].postCode
      /\ ReadTypes(result[r].id) = Range(input[r].serviceType)

\* a Lead created with two types is read after a later registration was
\* committed and another one was refused
C16_Witness ==
  \E r \in Req : \E o \in Req :
    /\ pc[r] = "created" /\ pc[o] = "created"
    /\ result[r].id < result[o].id
    /\ Len(input[r].serviceType) = 2
    /\ input[o].serviceType # input[r].serviceType

----------------------------------------------------------------------------
(* C17 *)

\* v is a text of at least one character
NonEmptyText(v) == v # Undefined /\ v # ""

\* the conditions under which a payload is to be accepted
WellFormed(p) ==
  /\ NonEmptyText(p.name)
  /\ NonEmptyText(p.email) /\ p.email \in {EmailA, EmailB}
  /\ NonEmptyText(p.mobile) /\ p.mobile = MobileOk
  /\ NonEmptyText(p.postCode)
  /\ Len(p.serviceType) >= 1
  /\ \A i \in 1..Len(p.serviceType) :
       p.serviceType[i] \in {"DELIVERY", "PICKUP", "PAYMENT"}

\* C17: a payload that was sent is accepted by the validator exactly when
\* name and postCode are non-empty text, email is non-empty and valid, mobile
\* is non-empty and a valid PH phone number and serviceType is a non-empty
\* list of enum members; a payload with an empty serviceType is rejected and
\* the validation failure carries "At least one service type must be
\* selected".
C17_ValidatorAcceptsIffWellFormed ==
  \A r \in Req :
    pc[r] # "idle" =>
      /\ Validates(input[r]) <=> WellFormed(input[r])
      /\ pc[r] # "rejected" <=> WellFormed(input[r])
      /\ input[r].serviceType = <<>> =>
           /\ pc[r] = "rejected"
           /\ \E i \in 1..Len(thrown[r].response.messages) :
                thrown[r].response.messages[i] =
                  <<"At least one service type must be selected">>
           /\ Response(r).error.message =
                <<"At least one service type must be selected">>

\* one payload was rejected for its empty serviceType, another for a value
\* outside the enum, and a well-formed one was accepted
C17_Witness ==
  \E r \in Req : \E o \in Req :
    /\ pc[r] = "rejected" /\ input[r].serviceType = <<>>
    /\ pc[o] \notin {"idle", "rejected"} /\ WellFormed(input[o])

----------------------------------------------------------------------------
(* C18: the store under DELETE FROM "Lead" *)

\* a variant of the foreign key without a referential action on delete
DeleteLead_NoCascade(id) ==
  /\ \E l \in leads : l.id = id
  /\ leads' = {l \in leads : l.id # id}
  /\ UNCHANGED <<interests, leadSeq, interestSeq, pc, input, tx, thrown,
                 result, calls, probe, embedsOriginal, http>>

\* DELETE FROM "Lead" WHERE id = id, issued by any client of the store:
\* ServiceInterest_leadId_fkey is ON DELETE CASCADE, so the rows of
\* ServiceInterest that reference the Lead go in the same statement
DeleteLead(id) ==
  /\ \E l \in leads : l.id = id
  /\ leads' = {l \in leads : l.id # id}
  /\ interests' = {w \in interests : w.leadId # id}
  /\ UNCHANGED <<leadSeq, interestSeq, pc, input, tx, thrown, result, calls,
                 probe, embedsOriginal, http>>

\* the program's calls together with deletions of stored Leads
StoreNext ==
  \/ \E r \in Req, p \in Payloads : Register(r, p)
  \/ \E r \in Req : InsertLead(r)
  \/ \E r \in Req : InsertInterest(r)
  \/ \E r \in Req : Commit(r)
  \/ \E r \in Req, error \in StorageFaults : Fault(r, error)
  \/ \E id \in 1..(leadSeq - 1) : DeleteLead(id)

StoreSpec == Init /\ [][StoreNext]_vars

\* no stored ServiceInterest row references a Lead that is not stored
NoOrphans == \A w \in interests : \E l \in leads : l.id = w.leadId

\* C18: whenever a Lead leaves the store, every ServiceInterest row that
\* referenced it leaves with it, and in every reachable state each stored
\* ServiceInterest row references a stored Lead.
C18_CascadeDelete ==
  /\ []NoOrphans
  /\ [][\A l \in leads :
          l \notin leads' => \A w \in interests' : w.leadId # l.id]_vars

\* a Lead with two ServiceInterest rows was deleted: its rows are gone while
\* another Lead and its rows are still stored
C18_Witness ==
  \E r \in Req :
    /\ pc[r] = "created"
    /\ Len(result[r].ServiceInterest) = 2
    /\ ReadLead(result[r].id) = {}
    /\ InterestsOf(result[r].id) = {}
    /\ interests # {}

----------------------------------------------------------------------------
(* C19 *)

\* call r returns a created Lead in this step
Returns(r) == pc[r] # "created" /\ pc'[r] = "created"

\* call r ends without a Lead in this step
Fails(r) == pc[r] \notin {"rejected", "failed"}
            /\ pc'[r] \in {"rejected", "failed"}

\* C19: no step of a register call removes or changes a stored Lead or
\* ServiceInterest row; the step in which a call returns a created Lead adds
\* exactly that Lead and only ServiceInterest rows that reference it; the
\* step in which a call fails, and every other step, adds nothing.
C19_RegisterOnlyAdds ==
  [][/\ leads \subseteq leads'
     /\ interests \subseteq interests'
     /\ \A r \in Req :
          Returns(r) =>
            /\ Cardinality(leads' \ leads) = 1
            /\ \A l \in leads' \ leads : l.id = result'[r].id
            /\ \A w \in interests' \ interests : w.leadId = result'[r].id
     /\ \A r \in Req :
          Fails(r) => leads' = leads /\ interests' = interests
     /\ (\A r \in Req : ~Returns(r))
          => leads' = leads /\ interests' = interests]_vars

\* a second call returned its Lead while the first call's Lead and rows
\* were stored, and the store holds exactly the rows of the two
C19_Witness ==
  \E r \in Req : \E o \in Req :
    /\ pc[r] = "created" /\ pc[o] = "created"
    /\ result[r].id < result[o].id
    /\ Cardinality(leads) = 2
    /\ Cardinality(interests)
         = Len(input[r].serviceType) + Len(input[o].serviceType)

----------------------------------------------------------------------------
(* C20 *)

\* the three errors of the domain, by exception class and status
DomainErrors ==
  {<<"ConflictException", CONFLICT>>, <<"NotFoundException", NOT_FOUND>>,
   <<"InternalServerErrorException", INTERNAL_SERVER_ERROR>>}

\* something was thrown inside create and create has thrown in turn
LeftCreate == probe.at = "registerLead" /\ probe.entry = "create"

----------------------------------------------------------------------------
(* C21 *)

\* call r was made with a payload that fails validation
InvalidSent(r) == pc[r] # "idle" /\ ~WellFormed(input[r])

\* C21: a call whose payload fails validation is reported as failed in the
\* step in which it is made, with the validation failure as its error, and
\* at no later moment has lead.create been called or a transaction been
\* opened for it.
C21_ValidationBeforeStorage ==
  /\ [](\A r \in Req :
          InvalidSent(r)
            => /\ pc[r] = "rejected"
               /\ calls[r] = 0
               /\ tx[r] = NoTx
               /\ thrown[r] \in {ValidationException(input[r]),
                                 CoercionError})
  /\ [][\A r \in Req :
          (pc[r] = "idle" /\ pc'[r] # "idle" /\ ~WellFormed(input'[r]))
            => /\ pc'[r] = "rejected"
               /\ calls'[r] = calls[r]
               /\ leadSeq' = leadSeq /\ interestSeq' = interestSeq
               /\ tx' = tx]_vars

\* a payload with a malformed mobile number was rejected without a storage
\* call while the other caller's registration was written
C21_Witness ==
  \E r \in Req : \E o \in Req :
    /\ pc[r] = "rejected" /\ input[r].mobile = BadMobile /\ calls[r] = 0
    /\ pc[o] = "created" /\ calls[o] = 1

----------------------------------------------------------------------------
(* C22 *)

\* registerLead's catch block has thrown
LeftRegisterLead ==
  probe.at = "filter" /\ probe.entry \in {"create", "registerLead"}

\* C22: when create failed with a domain error, what registerLead throws is
\* that same exception: the same class, status, code and message, whether the
\* error came out of create's own translation or entered registerLead's
\* catch block as an HttpException.
C22_ClassifiedErrorForwarded ==
  /\ (LeftRegisterLead /\ probe.entry = "create")
       => /\ probe.value = handlePrismaError(probe.origin)
          /\ probe.value.name = handlePrismaError(probe.origin).name
          /\ probe.value.status = handlePrismaError(probe.origin).status
          /\ probe.value.response = handlePrismaError(probe.origin).response
          /\ probe.value.message = handlePrismaError(probe.origin).message
  /\ (LeftRegisterLead /\ probe.entry = "registerLead"
        /\ IsHttpException(probe.origin))
       => probe.value = probe.origin

\* the conflict create threw for a unique-constraint error left registerLead
\* as that conflict
C22_Witness ==
  /\ LeftRegisterLead
  /\ probe.entry = "create"
  /\ IsKnownRequestError(probe.origin)
  /\ probe.origin.code = "P2002"
  /\ probe.value.name = "ConflictException"
  /\ probe.value.status = CONFLICT

----------------------------------------------------------------------------
(* C23 *)

\* payloads of the calls whose progress is followed: the fixture's list
\* defaultServiceTypes, the three types, a repeated type, each with both
\* emails, and a payload the validator rejects
defaultServiceTypes == <<"DELIVERY", "PAYMENT">>

LivePayloads ==
  {[BasePayload EXCEPT !.email = e, !.serviceType = t] :
     e \in Emails,
     t \in {defaultServiceTypes, updatedServiceTypes,
            <<"DELIVERY", "DELIVERY">>}}
    \cup {[BasePayload EXCEPT !.serviceType = <<>>]}

FairNext ==
  \/ \E r \in Req, p \in LivePayloads : Register(r, p)
  \/ \E r \in Req : InsertLead(r)
  \/ \E r \in Req : InsertInterest(r)
  \/ \E r \in Req : Commit(r)
  \/ \E r \in Req, error \in StorageFaults : Fault(r, error)

\* The storage client answers every statement it was sent: each step of an
\* open call is taken if it stays possible. Callers need not call, and the
\* client need not fault.
FairSpec ==
  /\ Init
  /\ [][FairNext]_vars
  /\ \A r \in Req :
       /\ WF_vars(InsertLead(r))
       /\ WF_vars(InsertInterest(r))
       /\ WF_vars(Commit(r))

\* call r is under way
Running(r) == pc[r] \in {"calling", "inTx"}

\* C23: every call that was made ends, as rejected, failed or created; it
\* calls lead.create at most once; and once it has ended nothing of it
\* changes any more: no second call of lead.create, no new transaction, the
\* same outcome, error and result.
C23_OneAttemptThenTerminal ==
  /\ [](\A r \in Req : calls[r] <= 1)
  /\ [][\A r \in Req :
          Done(r) => /\ pc'[r] = pc[r]
                     /\ calls'[r] = calls[r]
                     /\ tx'[r] = tx[r]
                     /\ thrown'[r] = thrown[r]
                     /\ result'[r] = result[r]
                     /\ input'[r] = input[r]]_vars
  /\ \A r \in Req : Running(r) ~> Done(r)

\* the part of C23 that every behaviour of Spec satisfies, fair or not
C23_NoRetry ==
  /\ [](\A r \in Req : calls[r] <= 1)
  /\ [][\A r \in Req :
          Done(r) => /\ pc'[r] = pc[r] /\ calls'[r] = calls[r]
                     /\ tx'[r] = NoTx]_vars

\* a call failed on its only storage call while the other call is still
\* under way
C23_Witness ==
  \E r \in Req : \E o \in Req :
    /\ pc[r] = "failed" /\ calls[r] = 1
    /\ Running(o)

----------------------------------------------------------------------------
(* C24 *)

\* the argument the repository test expects lead.create to be called with
\* for payload p: the four scalar fields, one nested create per element of
\* serviceType in payload order, and the relation included
ExpectedCall(p) ==
  [data |-> [name |-> p.name, email |-> p.email, mobile |-> p.mobile,
             postCode |-> p.postCode,
             ServiceInterest |->
               [create |-> [i \in 1..Len(p.serviceType) |->
                              [serviceType |-> p.serviceType[i]]]]],
   include |-> [ServiceInterest |-> TRUE]]

\* C24: for every call that reached create (its serviceType list is not
\* empty), lead.create was called exactly once, with the four scalar fields
\* and one {serviceType} entry per payload element in payload order and with
\* ServiceInterest included; the rows the store writes are those of that
\* argument; and the Lead the store returned is what create returns and what
\* the envelope carries, unchanged.
C24_CreateCallAndResult ==
  \A r \in Req :
    (pc[r] \notin {"idle", "rejected"} /\ input[r].serviceType # <<>>)
      => /\ calls[r] = 1
         /\ LeadCreateArgs(input[r]) = ExpectedCall(input[r])
         /\ \A i \in 1..Len(tx[r].interests) :
              tx[r].interests[i].serviceType = input[r].serviceType[i]
         /\ tx[r].lead # <<>>
              => tx[r].lead[1] = Spread([id |-> tx[r].lead[1].id],
                                        [k \in {"name", "email", "mobile",
                                                "postCode"} |->
                                           ExpectedCall(input[r]).data[k]])
         /\ pc[r] = "created"
              => /\ CreateReturns(result[r]) = result[r]
                 /\ Response(r).register.data = result[r]

\* create was called with the three types in the order PAYMENT, PICKUP,
\* DELIVERY and returned the store's Lead
C24_Witness ==
  \E r \in Req :
    /\ pc[r] = "created"
    /\ calls[r] = 1
    /\ input[r].serviceType = <<"PAYMENT", "PICKUP", "DELIVERY">>
    /\ LeadCreateArgs(input[r]).data.ServiceInterest.create[1].serviceType
         = "PAYMENT"

----------------------------------------------------------------------------
(* C25 *)

\* a payload whose serviceType list is empty
EmptyTypesPayload == [BasePayload EXCEPT !.serviceType = <<>>]

\* C25: in every reachable state each stored Lead owns at least one
\* ServiceInterest row, and a call with an empty serviceType list has been
\* rejected by the validator; create itself would not refuse such a payload:
\* the argument it builds for it has no nested ServiceInterest write and the
\* store's schema accepts it.
C25_EveryLeadHasInterest ==
  /\ \A l \in leads : InterestsOf(l.id) # {}
  /\ \A r \in Req :
       (pc[r] # "idle" /\ input[r].serviceType = <<>>)
         => pc[r] = "rejected" /\ calls[r] = 0
  /\ "ServiceInterest" \notin DOMAIN createLeadInput(EmptyTypesPayload)
  /\ DOMAIN createLeadInput(EmptyTypesPayload)
       = {"name", "email", "mobile", "postCode"}
  /\ FitsSchema(EmptyTypesPayload)
  /\ NestedCreates(EmptyTypesPayload) = <<>>

\* the validator rejected a payload with an empty serviceType list while the
\* store holds one Lead with one ServiceInterest row
C25_Witness ==
  \E r \in Req :
    /\ pc[r] = "rejected"
    /\ input[r] = EmptyTypesPayload
    /\ Cardinality(leads) = 1
    /\ \A l \in leads : Cardinality(InterestsOf(l.id)) = 1

----------------------------------------------------------------------------
(* C26 *)

\* call r was made with a payload that passes validation and repeats a type
RepeatsSent(r) ==
  /\ pc[r] # "idle"
  /\ WellFormed(input[r])
  /\ ~PairwiseDistinct(input[r].serviceType)

\* the text "LeadId and ServiceType already exists"
LeadIdAndServiceTypeExist ==
  Capitalised[leadIdField] \o <<" and ">> \o Capitalised[serviceTypeField]
    \o <<" already exists">>

\* C26: a call whose payload repeats a service type is not rejected by the
\* validator and reaches lead.create with one nested create per list element;
\* it never returns a Lead, and no stored Lead is its own; once its Lead
\* insert went through (its email was free), the call leaves the transaction,
\* unless the storage client faults, by a violation of the (leadId,
\* serviceType) index that rolls the transaction back and leaves both tables
\* as they were, and its caller sees status 409, code CONFLICT and the
\* message "LeadId and ServiceType already exists".
C26_RepeatedTypeConflict ==
  /\ [](\A r \in Req :
          RepeatsSent(r)
            => /\ pc[r] \notin {"rejected", "created"}
               /\ calls[r] = 1
               /\ Len(NestedCreates(input[r])) = Len(input[r].serviceType)
               /\ Done(r)
                    => \A l \in leads :
                         \E o \in Req \ {r} :
                           pc[o] = "created" /\ result[o].id = l.id
               /\ TypeConflict(r)
                    => Seen(r) = <<CONFLICT, "CONFLICT",
                                   LeadIdAndServiceTypeExist>>)
  /\ [][\A r \in Req :
          (/\ RepeatsSent(r)
           /\ pc[r] = "inTx" /\ pc'[r] # "inTx"
           /\ thrown'[r] \notin StorageFaults)
            => /\ pc'[r] = "failed"
               /\ thrown'[r]
                    = UniqueConstraintError(<<leadIdField, serviceTypeField>>)
               /\ tx'[r] = NoTx
               /\ leads' = leads /\ interests' = interests]_vars

\* the payload [DELIVERY, DELIVERY] ended as a conflict on (leadId,
\* serviceType) and the store is empty
C26_Witness ==
  \E r \in Req :
    /\ input[r].serviceType = <<"DELIVERY", "DELIVERY">>
    /\ TypeConflict(r)
    /\ Response(r).error.status = CONFLICT
    /\ Response(r).error.message = LeadIdAndServiceTypeExist
    /\ leads = {} /\ interests = {}

----------------------------------------------------------------------------
(* C27 *)

\* a Lead as the store returns it
SampleLead ==
  Spread(LeadData(BasePayload, 1),
         [ServiceInterest |->
            <<[id |-> 1, leadId |-> 1, serviceType |-> "DELIVERY"]>>])

\* C27: whatever is thrown inside registerLead's try block or inside create
\* (an HttpException, an error of the storage client, a plain Error, a value
\* that is no Error), what leaves registerLead is an HttpException with a
\* status; and when create resolves, registerLead returns the success
\* envelope around the Lead.
C27_RegisterLeadAlwaysHasOutcome ==
  /\ LeftRegisterLead
       => /\ IsHttpException(probe.value)
          /\ probe.value.status \in {BAD_REQUEST, 403, NOT_FOUND, CONFLICT,
                                     INTERNAL_SERVER_ERROR}
          /\ probe.entry = "registerLead"
               => /\ IsHttpException(probe.origin)
                    => probe.value = probe.origin
                  /\ (~IsHttpException(probe.origin) /\ IsError(probe.origin))
                    => /\ probe.value.name = "BadRequestException"
                       /\ probe.value.status = BAD_REQUEST
                  /\ ~IsError(probe.origin)
                    => /\ probe.value.name = "InternalServerErrorException"
                       /\ probe.value.status = INTERNAL_SERVER_ERROR
  /\ RegisterLeadReturns(SampleLead)
       = [success |-> TRUE, statusCode |-> CREATED,
          message |-> <<"Lead registered successfully">>, data |-> SampleLead]

\* a value that is no Error entered registerLead's catch block and left it as
\* an internal error
C27_Witness ==
  /\ LeftRegisterLead
  /\ probe.entry = "registerLead"
  /\ ~IsError(probe.origin)
  /\ probe.value.name = "InternalServerErrorException"

----------------------------------------------------------------------------
(* C28 *)

\* create threw a unique-constraint error, whatever its meta
AnyUniqueConstraintCase ==
  /\ probe.at # "none"
  /\ probe.entry = "create"
  /\ IsKnownRequestError(probe.origin)
  /\ probe.origin.code = "P2002"

\* the field names a unique-constraint error with this meta is to be
\* reported with: the string elements of an array target in their order, a
\* string target alone, none otherwise
RECURSIVE StringsOf(_)
StringsOf(items) ==
  IF items = <<>> THEN <<>>
  ELSE IF Head(items).t = "string"
    THEN <<Head(items).v>> \o StringsOf(Tail(items))
  ELSE StringsOf(Tail(items))

ExpectedFields(meta) ==
  CASE meta.kind = "array" -> StringsOf(meta.items)
    [] meta.kind = "string" -> <<meta.value>>
    [] OTHER -> <<>>

\* C28: a unique-constraint error leaves create as a ConflictException of
\* status 409 and code CONFLICT for every shape of its meta (absent, without
\* target, target of another type, a string, an array with elements that
\* are no strings); the field list is empty in the first three cases, the
\* single string for a string target and the string elements in order for an
\* array; and the caller receives status 409 and code CONFLICT.
C28_ConflictForEveryMeta ==
  AnyUniqueConstraintCase
    => /\ TargetFields(probe.origin) = ExpectedFields(probe.origin.meta)
       /\ probe.at = "registerLead"
            => /\ IsHttpException(probe.value)
               /\ probe.value.name = "ConflictException"
               /\ probe.value.status = CONFLICT
               /\ probe.value.response.code = "CONFLICT"
               /\ NamesFields(probe.value.response.message,
                              ExpectedFields(probe.origin.meta))
               /\ ExpectedFields(probe.origin.meta) = <<>>
                    => probe.value.response.message = <<" already exists">>
       /\ probe.at = "client"
            => /\ probe.value.status = CONFLICT
               /\ probe.value.code = "CONFLICT"

\* a unique-constraint error without meta left create as a conflict that
\* names no field
C28_Witness ==
  /\ AnyUniqueConstraintCase
  /\ probe.origin.meta.kind = "absent"
  /\ probe.at = "registerLead"
  /\ probe.value.name = "ConflictException"
  /\ probe.value.response.message = <<" already exists">>

----------------------------------------------------------------------------
(* C29 *)

\* the exception that reached the filter
ThrownToFilter ==
  CASE probe.entry = "create" -> handleError(handlePrismaError(probe.origin))
    [] probe.entry = "registerLead" -> handleError(probe.origin)
    [] OTHER -> probe.origin

\* C29: the GraphQLError the filter returns always carries a status and a
\* code in its extensions; the step of formatGraphQLError hands on exactly
\* that status and that code, and the caller's status and code are those the
\* filter placed for the exception it caught; applied to an error whose
\* extensions lack status or code, formatGraphQLError gives status 400 or
\* code INTERNAL_SERVER_ERROR for the lacking field and the present field
\* otherwise.
C29_FilterStatusAndCodeKept ==
  /\ [](/\ probe.at = "formatter"
             => {"status", "code"} \subseteq DOMAIN probe.value.extensions
        /\ probe.at = "client"
             => /\ probe.value.status
                     = FilterCatch(ThrownToFilter).extensions.status
                /\ probe.value.code
                     = FilterCatch(ThrownToFilter).extensions.code
        /\ \A g \in GraphQLErrors :
             LET out == formatGraphQLError(Formatted(g, <<>>)) IN
             /\ out.status = IF "status" \in DOMAIN g.extensions
                               THEN g.extensions.status ELSE BAD_REQUEST
             /\ out.code = IF "code" \in DOMAIN g.extensions
                             THEN g.extensions.code
                             ELSE "INTERNAL_SERVER_ERROR")
  /\ [][probe.at = "formatter"
          => /\ probe'.at = "client"
             /\ probe'.value.status = probe.value.extensions.status
             /\ probe'.value.code = probe.value.extensions.code]_vars

\* the conflict the filter caught reached the caller with the filter's
\* status 409 and code CONFLICT
C29_Witness ==
  /\ probe.at = "client"
  /\ probe.entry = "filter"
  /\ IsHttpException(probe.origin)
  /\ probe.origin.status = CONFLICT
  /\ probe.value.status = CONFLICT
  /\ probe.value.code = "CONFLICT"

----------------------------------------------------------------------------
(* Request ids: RequestIdMiddleware and GraphqlLoggingPlugin *)

\* HTTP requests in flight
Conn == {"h1", "h2"}

\* uuidv4(): the n-th identifier the generator hands out
uuidv4(n) == <<"uuid-1", "uuid-2">>[n]

NoRequestId == "No id available"

\* fields a resolver can put under data
EnvelopeField == handleSuccess([id |-> 1], SUCCESS_MESSAGES.REGISTERED, CREATED)
\* the envelope when the query did not select statusCode
PartialField == [success |-> TRUE, message |-> SUCCESS_MESSAGES.REGISTERED]
\* getLeadSample's string
ScalarField == [scalar |-> "Lead resolver"]

Datas ==
  {[register |-> EnvelopeField],
   [register |-> PartialField],
   [getLeadSample |-> ScalarField],
   [register |-> EnvelopeField, getLeadSample |-> ScalarField]}

\* response bodies of the server: a single result with data, a single result
\* with errors only, an incremental result
Bodies ==
       {[kind |-> "single", singleResult |-> [data |-> d]] : d \in Datas}
  \cup {[kind |-> "single",
         singleResult |-> [errors |-> <<[message |-> <<"Bad Request">>]>>]]}
  \cup {[kind |-> "incremental",
         initialResult |-> [data |-> [register |-> EnvelopeField]]]}

NoBody == [kind |-> "none"]

NewConn ==
  [stage |-> "new", requestId |-> Undefined, header |-> Undefined,
   captured |-> Undefined, body |-> NoBody, sent |-> NoBody]

\* 'success' in field && 'statusCode' in field && 'message' in field, for a
\* field that is an object
isStandardResponseField(field) ==
  /\ "scalar" \notin DOMAIN field
  /\ {"success", "statusCode", "message"} \subseteq DOMAIN field

\* Object.keys(data).forEach: data[key] = { ...field, requestId }
StampFields(data, requestId) ==
  [key \in DOMAIN data |->
     IF isStandardResponseField(data[key])
       THEN Spread(data[key], [requestId |-> requestId])
       ELSE data[key]]

\* which object extractData returns: singleResult.data, initialResult.data,
\* body.data or nothing
extractData(body) ==
  IF body.kind = "single" /\ "data" \in DOMAIN body.singleResult
    THEN "singleResult"
  ELSE IF body.kind = "incremental" /\ "data" \in DOMAIN body.initialResult
    THEN "initialResult"
  ELSE IF "data" \in DOMAIN body THEN "body"
  ELSE "undefined"

\* the body after addRequestIdToResponse(body, requestId)
addRequestIdToResponse(body, requestId) ==
  CASE extractData(body) = "singleResult" ->
         [body EXCEPT !.singleResult.data = StampFields(@, requestId)]
    [] extractData(body) = "initialResult" ->
         [body EXCEPT !.initialResult.data = StampFields(@, requestId)]
    [] extractData(body) = "body" ->
         [body EXCEPT !.data = StampFields(@, requestId)]
    [] OTHER -> body

IdInit ==
  /\ leads = {}
  /\ interests = {}
  /\ leadSeq = 1
  /\ interestSeq = 1
  /\ pc = [r \in Req |-> "idle"]
  /\ input = [r \in Req |-> NoPayload]
  /\ tx = [r \in Req |-> NoTx]
  /\ thrown = [r \in Req |-> NoError]
  /\ result = [r \in Req |-> NoLead]
  /\ calls = [r \in Req |-> 0]
  /\ probe = NoProbe
  /\ embedsOriginal = FALSE
  /\ http \in {[installed |-> b, uuidSeq |-> 1,
                conn |-> [h \in Conn |-> NewConn]] : b \in BOOLEAN}

IdFrame ==
  UNCHANGED <<leads, interests, leadSeq, interestSeq, pc, input, tx, thrown,
              result, calls, probe, embedsOriginal>>

\* RequestIdMiddleware.use, when consumer.apply(RequestIdMiddleware) is
\* configured
Use(h) ==
  /\ http.installed
  /\ http.conn[h].stage = "new"
  /\ LET requestId == uuidv4(http.uuidSeq) IN
     http' = [http EXCEPT !.uuidSeq = @ + 1,
                          !.conn[h].requestId = requestId,
                          !.conn[h].header = requestId,
                          !.conn[h].stage = "handled"]
  /\ IdFrame

\* a variant that keeps the request id in a field of the plugin, which every
\* request's listener reads
RequestDidStart_SharedField(h) ==
  /\ http.conn[h].stage = (IF http.installed THEN "handled" ELSE "new")
  /\ LET requestId == IF http.conn[h].requestId # Undefined
                        THEN http.conn[h].requestId ELSE NoRequestId
     IN http' = [http EXCEPT !.conn =
                   [k \in Conn |->
                      IF k = h
                        THEN [@[k] EXCEPT !.captured = requestId,
                                          !.stage = "started"]
                        ELSE [@[k] EXCEPT !.captured = requestId]]]
  /\ IdFrame

\* GraphqlLoggingPlugin.requestDidStart: const requestId =
\* contextValue?.req?.requestId ?? 'No id available', held by the listener
\* of this request
RequestDidStart(h) ==
  /\ http.conn[h].stage = (IF http.installed THEN "handled" ELSE "new")
  /\ LET requestId == IF http.conn[h].requestId # Undefined
                        THEN http.conn[h].requestId ELSE NoRequestId
     IN http' = [http EXCEPT !.conn[h].captured = requestId,
                             !.conn[h].stage = "started"]
  /\ IdFrame

\* the operation was executed and the server has its response body
Execute(h, body) ==
  /\ http.conn[h].stage = "started"
  /\ http' = [http EXCEPT !.conn[h].body = body,
                          !.conn[h].stage = "executed"]
  /\ IdFrame

\* willSendResponse: addRequestIdToResponse(body, requestId)
WillSendResponse(h) ==
  /\ http.conn[h].stage = "executed"
  /\ http' = [http EXCEPT
       !.conn[h].sent =
          addRequestIdToResponse(http.conn[h].body, http.conn[h].captured),
       !.conn[h].stage = "sent"]
  /\ IdFrame

IdNext ==
  \/ \E h \in Conn : Use(h)
  \/ \E h \in Conn : RequestDidStart(h)
  \/ \E h \in Conn, body \in Bodies : Execute(h, body)
  \/ \E h \in Conn : WillSendResponse(h)

IdSpec == IdInit /\ [][IdNext]_vars

----------------------------------------------------------------------------
(* C30 *)

\* the object of body that holds the top-level response fields
DataOf(body) ==
  CASE body.kind = "single" -> body.singleResult.data
    [] body.kind = "incremental" -> body.initialResult.data

\* body carries top-level response fields
HasData(body) ==
  \/ body.kind = "single" /\ "data" \in DOMAIN body.singleResult
  \/ body.kind = "incremental" /\ "data" \in DOMAIN body.initialResult

\* field has success, statusCode and message
EnvelopeShaped(field) ==
  /\ "success" \in DOMAIN field
  /\ "statusCode" \in DOMAIN field
  /\ "message" \in DOMAIN field

\* the request id the response of request h is to carry
ExpectedRequestId(h) ==
  IF http.installed THEN http.conn[h].header ELSE NoRequestId

\* C30: in the response sent for a request, every top-level field that has
\* success, statusCode and message carries requestId equal to the
\* X-Request-ID header of that request when the middleware is installed,
\* which is the header of no other request, and "No id available" when it is
\* not, and is otherwise the field the server produced; every other field,
\* and every body without data, is sent as the server produced it.
C30_RequestIdOfOwnRequest ==
  \A h \in Conn :
    http.conn[h].stage = "sent" =>
      LET before == http.conn[h].body
          after == http.conn[h].sent
      IN IF ~HasData(before) THEN after = before
         ELSE /\ after.kind = before.kind
              /\ DOMAIN DataOf(after) = DOMAIN DataOf(before)
              /\ \A key \in DOMAIN DataOf(before) :
                   IF EnvelopeShaped(DataOf(before)[key])
                     THEN /\ DataOf(after)[key].requestId
                               = ExpectedRequestId(h)
                          /\ http.installed
                               => \A k \in Conn \ {h} :
                                    DataOf(after)[key].requestId
                                      # http.conn[k].header
                          /\ DOMAIN DataOf(after)[key]
                               = DOMAIN DataOf(before)[key] \cup {"requestId"}
                          /\ \A f \in DOMAIN DataOf(before)[key] :
                               DataOf(after)[key][f] = DataOf(before)[key][f]
                     ELSE DataOf(after)[key] = DataOf(before)[key]

\* with the middleware installed, the response of a request that started
\* first and was sent last carries its own header while the other request
\* has its own id
C30_Witness ==
  /\ http.installed
  /\ http.conn["h1"].stage = "sent"
  /\ http.conn["h2"].stage = "sent"
  /\ http.conn["h1"].header = "uuid-1"
  /\ http.conn["h2"].header = "uuid-2"
  /\ http.conn["h1"].body.kind = "single"
  /\ HasData(http.conn["h1"].body)
  /\ "register" \in DOMAIN DataOf(http.conn["h1"].body)
  /\ EnvelopeShaped(DataOf(http.conn["h1"].body).register)
  /\ DataOf(http.conn["h1"].sent).register.requestId = "uuid-1"

====
